---- MODULE Spec2Model ----
(***************************************************************************)
(* Model of ch12/miscdrv_rdwr/miscdrv_rdwr.c: a misc character device that *)
(* keeps a 'secret' in a driver context.  read() hands the secret to the   *)
(* caller, write() replaces it; tx/rx are transfer statistics, ga/gb are   *)
(* open/close tallies.                                                     *)
(*                                                                         *)
(* The specifications share the variables and the helper operators:        *)
(*   Spec   every handler runs as one atomic action (serialized calls);    *)
(*   SpecC  the handlers of two tasks and module init interleave at the    *)
(*          granularity of their accesses to the shared context;           *)
(*   SpecA  SpecC with the tasks starting after init has completed;        *)
(*   SpecL  init and two tasks that each write a full-size payload.        *)
(***************************************************************************)
EXTENDS Integers, Sequences, FiniteSets, TLC

VARIABLES
    registered,  \* misc_register() has put the device on the misc list
    ctx,         \* the pointer 'ctx': "NULL", "valid" or "freed"
    mem,         \* the struct drv_ctx that ctx points to
    ga, gb,      \* the open/close tallies
    initst,      \* position of miscdrv_init / miscdrv_exit
    initi,       \* SpecC: bytes of "initmsg" that init's strlcpy has stored
    sessions,    \* open file descriptions on the device (kept by the VFS)
    live,        \* staging buffers allocated and not yet released
    last,        \* the most recent return (Spec; in SpecC that of init/exit)
    ncalls,      \* handler calls made so far (bounds the run)
    pc, loc,     \* SpecC: position and locals of each task's handler
    fd,          \* SpecC: the task's descriptor: "never", "open", "closed"
    done         \* SpecC: the last call each task completed

vars == <<registered, ctx, mem, ga, gb, initst, initi, sessions, live, last, ncalls,
          pc, loc, fd, done>>

---------------------------------------------------------------------------
(* Program constants *)
MAXBYTES == 128
EINVAL == 22
ENOMEM == 12
EFAULT == 14
EBUSY == 16
InitSize == 8

(* Bounds of the model *)
MaxLen == 2        \* payloads of every length 0..MaxLen over Alphabet
MaxCalls == 2      \* read/write calls in a run of Spec
MaxOver == 1       \* bytes strlen() may run past an unterminated buffer
MaxUncopied == 1   \* partial-copy residues enumerated besides 'all'
MaxSessions == 1   \* simultaneously open descriptors in Spec
MaxConcCalls == 2  \* read/write calls in a run of SpecC

IntMax == 65536 * 32767 + 65535
IntMin == -IntMax - 1

(* a + b in a 32-bit int that wraps (the kernel is built with               *)
(* -fno-strict-overflow): line 142 'ctx->tx += secret_len', line 207        *)
(* 'ctx->rx += count', lines 79-80 and 229-230 for ga and gb.               *)
AddInt32(a, b) ==
    IF b > 0 /\ a > IntMax - b THEN (a - IntMax) + (b - IntMax) - 2
    ELSE IF b < 0 /\ a < IntMin - b THEN (a + IntMax) + (b + IntMax) + 2
    ELSE a + b

(* (int)count for a size_t count, line 161.  Counts are kept within         *)
(* 0..IntMax, where the conversion changes nothing.                         *)
ToInt32(count) == IF count > IntMax THEN count - IntMax - IntMax - 2 ELSE count

Min(a, b) == IF a < b THEN a ELSE b

Zeros(n) == [i \in 1..n |-> 0]
Fill(b, n) == [i \in 1..n |-> b]

(* "initmsg" with the terminator of the string literal *)
initmsg == <<105, 110, 105, 116, 109, 115, 103, 0>>
hello == <<104, 101, 108, 108, 111>>

---------------------------------------------------------------------------
(* String helpers of the kernel, as the handlers call them *)

HasNul(s) == \E i \in 1..Len(s) : s[i] = 0
FirstNul(s) == CHOOSE i \in 1..Len(s) : s[i] = 0 /\ \A j \in 1..(i - 1) : s[j] # 0

(* strnlen(s, max): bytes before the first terminator, at most max *)
strnlen(s, max) ==
    LET t == SubSeq(s, 1, Min(max, Len(s)))
    IN  IF HasNul(t) THEN FirstNul(t) - 1 ELSE Len(t)

(* strlen(src) on a buffer of Len(src) bytes: without a terminator in the   *)
(* buffer the scan runs 'over' bytes past its end.                          *)
strlen(src, over) ==
    IF HasNul(src) THEN FirstNul(src) - 1 ELSE Len(src) + over

(* Bytes strlcpy(dest, src, size) copies before it places the terminator.   *)
strlcpy_len(src, size, over) ==
    LET ret == strlen(src, over)
    IN  IF ret >= size THEN size - 1 ELSE ret

(* strlcpy(dest, src, size): dest afterwards.  size = 0 stores nothing.     *)
strlcpy(dest, src, size, over) ==
    LET len == strlcpy_len(src, size, over)
    IN  IF size = 0 THEN dest
        ELSE [i \in 1..Len(dest) |->
                IF i <= len THEN src[i]
                ELSE IF i = len + 1 THEN 0
                ELSE dest[i]]

(* The secret as Read sees it: the bytes before the first terminator.       *)
Logical(buf) == SubSeq(buf, 1, strnlen(buf, MAXBYTES))

---------------------------------------------------------------------------
(* struct drv_ctx as devm_kzalloc() returns it *)
ZeroCtx ==
    [tx |-> 0, rx |-> 0, err |-> 0, myword |-> 0,
     config1 |-> 0, config2 |-> 0, config3 |-> 0,
     oursecret |-> Zeros(MAXBYTES)]

NoBytes == <<>>

(* A handler return as the caller observes it.  oops: the task died in the  *)
(* handler (invalid pointer dereference) and nothing was returned.          *)
Ret(op, count, ubuf, ret, oops, out, allocfail, uncopied, allocs, frees) ==
    [op |-> op, count |-> count, ubuf |-> ubuf, ret |-> ret, oops |-> oops,
     out |-> out, allocfail |-> allocfail, uncopied |-> uncopied,
     allocs |-> allocs, frees |-> frees]

NoCall == Ret("none", 0, NoBytes, 0, FALSE, NoBytes, FALSE, 0, 0, 0)

---------------------------------------------------------------------------
(* Inputs *)

Alphabet == {0, 97}

RECURSIVE SeqsUpTo(_)
SeqsUpTo(n) ==
    IF n = 0 THEN {<<>>}
    ELSE LET shorter == SeqsUpTo(n - 1)
         IN  shorter \cup {Append(s, b) : s \in {t \in shorter : Len(t) = n - 1},
                                          b \in Alphabet}

(* User buffers handed to write(); the call's count is the buffer's length. *)
Payloads ==
    SeqsUpTo(MaxLen)
        \cup {hello, Append(hello, 0)}
        \cup {Fill(97, MAXBYTES - 1), Fill(98, MAXBYTES)}

(* Counts beyond MAXBYTES; the user buffer is never touched for these.      *)
BigCounts == {MAXBYTES + 1, 200, IntMax}

ReadCounts == {0, MAXBYTES - 1, MAXBYTES, 4096}

(* What copy_to_user()/copy_from_user() may return for n bytes: the number  *)
(* of bytes left uncopied, 0 on success.                                    *)
Residues(n) == {0} \cup {u \in 1..n : u <= MaxUncopied \/ u = n}

---------------------------------------------------------------------------
(* read_miscdrv_rdwr *)

(* Variant: only an empty request is refused *)
read_too_small_zero_only(count) == count = 0

(* line 110: the caller's buffer is too small *)
read_too_small(count) == count < MAXBYTES

(* Variant: the length is taken to be the capacity of the buffer *)
read_secret_len_capacity(m) == MAXBYTES

(* line 103: secret_len = strnlen(ctx->oursecret, MAXBYTES) *)
read_secret_len(m) == strnlen(m.oursecret, MAXBYTES)

(* Variant: the bytes read are accounted in rx *)
read_update_tx_rx(m, secret_len) == [m EXCEPT !.rx = AddInt32(@, secret_len)]

(* line 142: ctx->tx += secret_len *)
read_update_tx(m, secret_len) == [m EXCEPT !.tx = AddInt32(@, secret_len)]

(* Variant: an empty secret is read like any other *)
read_secret_empty_never(secret_len) == FALSE

(* line 116: there is nothing to hand out *)
read_secret_empty(secret_len) == secret_len <= 0

(* Whether the handler reaches copy_to_user() at line 134 *)
read_copies(m, count) ==
    ~read_too_small(count) /\ ~read_secret_empty(read_secret_len(m))

(* An access through ctx faults.  NULL always does.  Once miscdrv_exit has   *)
(* released the block the access is undefined behaviour: uaf chooses        *)
(* between a fault and the bytes the released block still holds.            *)
ctx_fault(c, uaf) == c = "NULL" \/ (c = "freed" /\ uaf)

(* The whole handler on a valid context: return value, the bytes that       *)
(* reached the caller's buffer, and the context afterwards.                 *)
read_miscdrv_rdwr(m, count, uncopied) ==
    LET secret_len == read_secret_len(m)
    IN  IF read_too_small(count) THEN
            [ret |-> -EINVAL, out |-> NoBytes, mem |-> m]
        ELSE IF read_secret_empty(secret_len) THEN
            [ret |-> -EINVAL, out |-> NoBytes, mem |-> m]
        ELSE IF uncopied # 0 THEN
            [ret |-> -EFAULT,
             out |-> SubSeq(m.oursecret, 1, secret_len - uncopied),
             mem |-> m]
        ELSE
            [ret |-> secret_len,
             out |-> SubSeq(m.oursecret, 1, secret_len),
             mem |-> read_update_tx(m, secret_len)]

---------------------------------------------------------------------------
(* write_miscdrv_rdwr *)

(* line 165: count exceeds the capacity *)
write_too_big(count) == count > MAXBYTES

(* line 161/168: the value returned on the oversize path, 'int ret = count' *)
write_ret_too_big(count) == ToInt32(count)

(* Variant: the result of copy_from_user() is ignored *)
copy_from_user_failed_ignored(uncopied) == FALSE

(* line 189: copy_from_user() reported bytes left uncopied *)
copy_from_user_failed(uncopied) == uncopied # 0

(* Variant: the size handed to strlcpy is one more than the request *)
write_size_plus_nul(count) == count + 1

(* line 200: the size handed to strlcpy *)
write_size(count) == IF count > MAXBYTES THEN MAXBYTES ELSE count

(* Variant: the payload is copied over the buffer without a terminator *)
write_commit_memcpy(m, kbuf, count, over) ==
    [m EXCEPT !.oursecret =
        [i \in 1..MAXBYTES |->
            IF i <= Min(write_size(count), Len(kbuf)) THEN kbuf[i]
            ELSE m.oursecret[i]]]

(* line 200: strlcpy(ctx->oursecret, kbuf, size) *)
write_commit(m, kbuf, count, over) ==
    [m EXCEPT !.oursecret = strlcpy(@, kbuf, write_size(count), over)]

(* Variant: rx counts the bytes that were stored, not the bytes requested *)
write_update_rx_stored(m, count) ==
    [m EXCEPT !.rx = AddInt32(@, strnlen(m.oursecret, MAXBYTES))]

(* line 207: ctx->rx += count *)
write_update_rx(m, count) == [m EXCEPT !.rx = AddInt32(@, count)]

(* kvmalloc(count): a real buffer for count > 0, ZERO_SIZE_PTR for 0 *)
RealBuf(count) == IF count > 0 THEN 1 ELSE 0

(* Variant: the allocation failure returns what ret was initialised to *)
write_ret_nomem_count(count) == ToInt32(count)

(* lines 173-177: the value returned when kvmalloc() fails *)
write_ret_nomem(count) == -ENOMEM

(* line 200 with count = 0: kbuf is the zero-size pointer kvmalloc(0)       *)
(* returned, an address that is never mapped, and strlcpy() runs            *)
(* strlen(kbuf) before it looks at size: the task dies there.               *)
kbuf_fault(count) == count = 0

(* The whole handler.  c is the ctx pointer; uaf chooses the outcome of the *)
(* accesses to a released context.                                          *)
write_miscdrv_rdwr(c, m, count, ubuf, allocfail, uncopied, over, uaf) ==
    IF write_too_big(count) THEN
        [ret |-> write_ret_too_big(count), oops |-> FALSE, mem |-> m,
         allocs |-> 0, frees |-> 0]
    ELSE IF allocfail THEN
        [ret |-> write_ret_nomem(count), oops |-> FALSE, mem |-> m,
         allocs |-> 0, frees |-> 0]
    ELSE IF copy_from_user_failed(uncopied) THEN
        [ret |-> -EFAULT, oops |-> FALSE, mem |-> m,
         allocs |-> RealBuf(count), frees |-> RealBuf(count)]
    ELSE IF kbuf_fault(count) \/ ctx_fault(c, uaf) THEN
        [ret |-> 0, oops |-> TRUE, mem |-> m,
         allocs |-> RealBuf(count), frees |-> 0]
    ELSE
        [ret |-> ToInt32(count), oops |-> FALSE,
         mem |-> write_update_rx(write_commit(m, ubuf, count, over), count),
         allocs |-> RealBuf(count), frees |-> RealBuf(count)]

---------------------------------------------------------------------------
(* miscdrv_init / miscdrv_exit *)

(* line 286: strlcpy(ctx->oursecret, "initmsg", 8) *)
init_secret(m) == [m EXCEPT !.oursecret = strlcpy(@, initmsg, InitSize, 0)]

Procs == {1, 2}

NoLoc ==
    [op |-> "none", count |-> 0, ubuf |-> NoBytes, kbuf |-> NoBytes,
     len |-> 0, i |-> 0, tmp |-> 0, secret_len |-> 0, out |-> NoBytes]

Init ==
    /\ registered = FALSE
    /\ ctx = "NULL"
    /\ mem = ZeroCtx
    /\ ga = 0
    /\ gb = 1
    /\ initst = "start"
    /\ initi = 0
    /\ sessions = 0
    /\ live = 0
    /\ last = NoCall
    /\ ncalls = 0
    /\ pc = [p \in Procs |-> "idle"]
    /\ loc = [p \in Procs |-> NoLoc]
    /\ fd = [p \in Procs |-> "never"]
    /\ done = [p \in Procs |-> NoCall]

taskvars == <<pc, loc, fd, done>>

(* miscdrv_init as one step: regret is what misc_register() returns,        *)
(* allocfail whether devm_kzalloc() returns NULL.                           *)
ModuleInit(regret, allocfail) ==
    /\ initst = "start"
    /\ IF regret # 0 THEN
            /\ initst' = "failed"
            /\ last' = Ret("init", 0, NoBytes, regret, FALSE, NoBytes, FALSE, 0, 0, 0)
            /\ UNCHANGED <<registered, ctx, mem>>
       ELSE IF allocfail THEN
            /\ registered' = TRUE
            /\ initst' = "failed"
            /\ last' = Ret("init", 0, NoBytes, -ENOMEM, FALSE, NoBytes, TRUE, 0, 0, 0)
            /\ UNCHANGED <<ctx, mem>>
       ELSE
            /\ registered' = TRUE
            /\ ctx' = "valid"
            /\ mem' = init_secret(ZeroCtx)
            /\ initst' = "done"
            /\ last' = Ret("init", 0, NoBytes, 0, FALSE, NoBytes, FALSE, 0, 0, 0)
    /\ UNCHANGED <<initi, ga, gb, sessions, live, ncalls, taskvars>>

(* miscdrv_exit: misc_deregister(); the devres framework releases ctx with  *)
(* the device.  llkd_misc_fops names no owner, so an open descriptor holds  *)
(* no reference on the module and does not keep rmmod from running: the     *)
(* descriptors stay open and the handlers in flight go on.  The dev_dbg()   *)
(* at line 299 uses 'dev' after its release (devfault: it faults).          *)
ModuleExit(devfault) ==
    /\ initst = "done"
    /\ registered' = FALSE
    /\ ctx' = "freed"
    /\ initst' = "exited"
    /\ last' = Ret("exit", 0, NoBytes, 0, devfault, NoBytes, FALSE, 0, 0, 0)
    /\ UNCHANGED <<initi, mem, ga, gb, sessions, live, ncalls, taskvars>>

(* open_miscdrv_rdwr: reachable as soon as the device is on the misc list   *)
Open ==
    /\ registered
    /\ sessions < MaxSessions
    /\ ga' = AddInt32(ga, 1)
    /\ gb' = AddInt32(gb, -1)
    /\ sessions' = sessions + 1
    /\ last' = Ret("open", 0, NoBytes, 0, FALSE, NoBytes, FALSE, 0, 0, 0)
    /\ UNCHANGED <<registered, ctx, mem, initst, initi, live, ncalls, taskvars>>

(* Variant: close undoes the count in ga and forgets gb *)
Close_keeps_gb ==
    /\ sessions > 0
    /\ ga' = AddInt32(ga, -1)
    /\ gb' = gb
    /\ sessions' = sessions - 1
    /\ last' = Ret("close", 0, NoBytes, 0, FALSE, NoBytes, FALSE, 0, 0, 0)
    /\ UNCHANGED <<registered, ctx, mem, initst, initi, live, ncalls, taskvars>>

(* close_miscdrv_rdwr *)
Close ==
    /\ sessions > 0
    /\ ga' = AddInt32(ga, -1)
    /\ gb' = AddInt32(gb, 1)
    /\ sessions' = sessions - 1
    /\ last' = Ret("close", 0, NoBytes, 0, FALSE, NoBytes, FALSE, 0, 0, 0)
    /\ UNCHANGED <<registered, ctx, mem, initst, initi, live, ncalls, taskvars>>

(* What copy_to_user() may return in a read of count bytes in this state    *)
ReadResidues(count) ==
    IF ctx # "NULL" /\ read_copies(mem, count)
    THEN Residues(read_secret_len(mem)) ELSE {0}

(* read(fd, ubuf, count); uncopied is what copy_to_user() returns if the    *)
(* handler gets that far.  Line 103 dereferences ctx.                       *)
Read(count, uncopied, uaf) ==
    /\ sessions > 0
    /\ ncalls < MaxCalls
    /\ ncalls' = ncalls + 1
    /\ IF ctx_fault(ctx, uaf) THEN
            /\ last' = Ret("read", count, NoBytes, 0, TRUE, NoBytes, FALSE, 0, 0, 0)
            /\ mem' = mem
       ELSE
            LET r == read_miscdrv_rdwr(mem, count, uncopied)
            IN  /\ mem' = r.mem
                /\ last' = Ret("read", count, NoBytes, r.ret, FALSE, r.out,
                               FALSE, uncopied, 0, 0)
    /\ UNCHANGED <<registered, ctx, ga, gb, initst, initi, sessions, live, taskvars>>

(* write(fd, ubuf, count) with the failures the environment can inject      *)
Write(count, ubuf, allocfail, uncopied, over, uaf) ==
    /\ sessions > 0
    /\ ncalls < MaxCalls
    /\ ncalls' = ncalls + 1
    /\ LET w == write_miscdrv_rdwr(ctx, mem, count, ubuf, allocfail, uncopied,
                                   over, uaf)
       IN  /\ mem' = w.mem
           /\ live' = live + w.allocs - w.frees
           /\ last' = Ret("write", count, ubuf, w.ret, w.oops, NoBytes,
                          allocfail, uncopied, w.allocs, w.frees)
    /\ UNCHANGED <<registered, ctx, ga, gb, initst, initi, sessions, taskvars>>

(* The failure and undefined-behaviour choices that matter for a call: each *)
(* is enumerated only where the handler consults it (kvmalloc of 0 bytes    *)
(* hands out the zero-size pointer and cannot fail).                        *)
UafChoices == IF ctx = "freed" THEN BOOLEAN ELSE {FALSE}

WriteCall ==
    \/ \E count \in BigCounts :
          Write(count, NoBytes, FALSE, 0, 0, FALSE)
    \/ \E ubuf \in {P \in Payloads : RealBuf(Len(P)) > 0} :
          Write(Len(ubuf), ubuf, TRUE, 0, 0, FALSE)
    \/ \E ubuf \in Payloads : \E uncopied \in Residues(Len(ubuf)) \ {0} :
          Write(Len(ubuf), ubuf, FALSE, uncopied, 0, FALSE)
    \/ \E ubuf \in Payloads :
          \E over \in (IF HasNul(ubuf) \/ Len(ubuf) = 0 THEN {0} ELSE 0..MaxOver) :
          \E uaf \in UafChoices :
             Write(Len(ubuf), ubuf, FALSE, 0, over, uaf)

ReadCall ==
    \E count \in ReadCounts : \E uncopied \in ReadResidues(count) :
    \E uaf \in UafChoices :
        Read(count, uncopied, uaf)

ExitCall == \E devfault \in BOOLEAN : ModuleExit(devfault)

InitCall == \E regret \in {0, -EBUSY} : \E allocfail \in BOOLEAN :
                (regret # 0 => ~allocfail) /\ ModuleInit(regret, allocfail)

Next ==
    \/ InitCall
    \/ ExitCall
    \/ Open
    \/ Close
    \/ ReadCall
    \/ WriteCall

Spec == Init /\ [][Next]_vars

---------------------------------------------------------------------------
(* Properties of the serialized handlers (Spec) *)

(* A step of Spec that is one read() / one write() call *)
ReadStep == ncalls' = ncalls + 1 /\ last'.op = "read"
WriteStep == ncalls' = ncalls + 1 /\ last'.op = "write"

(* The previous call was a write within capacity that returned its count *)
WriteAccepted(r) ==
    r.op = "write" /\ ~r.oops /\ r.count <= MAXBYTES /\ r.ret = r.count

InitmsgText == <<105, 110, 105, 116, 109, 115, 103>>

(* C1 (as claimed): a write of a non-empty payload P with count = len(P)    *)
(* that returned count, followed at once by a read with count >= MAXBYTES   *)
(* into a good buffer, returns len(P) and exactly the bytes of P.           *)
C1_RoundTrip ==
    [][(/\ WriteAccepted(last)
        /\ last.count > 0
        /\ ReadStep
        /\ last'.count >= MAXBYTES
        /\ last'.uncopied = 0)
       => (last'.ret = Len(last.ubuf) /\ last'.out = last.ubuf)]_vars

(* C2 (as claimed): a write with count > MAXBYTES returns -EINVAL, allocates *)
(* no staging buffer and leaves the secret and rx as they were.             *)
C2_OversizeWriteFails ==
    [][(WriteStep /\ last'.count > MAXBYTES)
       => (/\ last'.ret = -EINVAL
           /\ last'.allocs = 0
           /\ mem'.oursecret = mem.oursecret
           /\ mem'.rx = mem.rx)]_vars

(* C3 (as claimed): with the context attached, a write with count = 0       *)
(* succeeds, returning 0, and leaves the secret with logical length 0,      *)
(* whatever it was before, so that a read that follows is refused.          *)
C3_EmptyWriteEmptiesSecret ==
    [][(/\ WriteStep
        /\ ctx = "valid"
        /\ last'.count = 0)
       => (/\ ~last'.oops
           /\ last'.ret = 0
           /\ strnlen(mem'.oursecret, MAXBYTES) = 0
           /\ \A count \in ReadCounts :
                  read_miscdrv_rdwr(mem', count, 0).ret = -EINVAL)]_vars

(* C6 (as claimed): after miscdrv_init has failed on the context allocation *)
(* the device endpoint is not registered.                                   *)
C6_FailedAttachUnregistered ==
    (initst = "failed" /\ ctx = "NULL" /\ last.op = "init" /\ last.ret = -ENOMEM)
        => ~registered

(* C7 (as claimed): with the context attached, every read with              *)
(* count >= MAXBYTES of a non-empty secret succeeds, delivers exactly the   *)
(* bytes before the first terminator, returns their number and adds it to   *)
(* tx.                                                                      *)
C7_ReadAlwaysSucceeds ==
    [][(/\ ReadStep
        /\ ctx = "valid"
        /\ last'.count >= MAXBYTES
        /\ strnlen(mem.oursecret, MAXBYTES) > 0)
       => (/\ last'.ret = strnlen(mem.oursecret, MAXBYTES)
           /\ last'.out = Logical(mem.oursecret)
           /\ mem'.tx = mem.tx + strnlen(mem.oursecret, MAXBYTES))]_vars

(* C7 (amended): the same when copy_to_user() does not fault; a             *)
(* read(128) on the context as miscdrv_init left it returns the 7 bytes     *)
(* "initmsg" and makes tx 7; and when the copy faults the read returns      *)
(* -EFAULT and leaves tx and the rest of the context as they were.          *)
C7_ReadReturnsSecret ==
    [][/\ (/\ ReadStep
           /\ ctx = "valid"
           /\ last'.count >= MAXBYTES
           /\ strnlen(mem.oursecret, MAXBYTES) > 0
           /\ last'.uncopied = 0)
          => (/\ ~last'.oops
              /\ last'.ret = strnlen(mem.oursecret, MAXBYTES)
              /\ last'.out = Logical(mem.oursecret)
              /\ mem'.tx = mem.tx + strnlen(mem.oursecret, MAXBYTES)
              /\ mem'.oursecret = mem.oursecret
              /\ (mem = init_secret(ZeroCtx)
                    => last'.ret = 7 /\ last'.out = InitmsgText /\ mem'.tx = 7))
       /\ (/\ ReadStep
           /\ ctx = "valid"
           /\ last'.count >= MAXBYTES
           /\ strnlen(mem.oursecret, MAXBYTES) > 0
           /\ last'.uncopied # 0)
          => (/\ ~last'.oops
              /\ last'.ret = -EFAULT
              /\ mem' = mem)]_vars

(* C7 witness: the read(128) right after init has returned "initmsg"        *)
C7_Witness ==
    /\ last.op = "read"
    /\ last.count = MAXBYTES
    /\ last.ret = 7
    /\ last.out = InitmsgText
    /\ mem.tx = 7
    /\ mem.rx = 0

(* C8: with the context attached, a read with count < MAXBYTES returns      *)
(* -EINVAL, copies nothing and changes neither tx, rx nor the secret.       *)
C8_ShortReadRejected ==
    [][(ReadStep /\ ctx = "valid" /\ last'.count < MAXBYTES)
       => (/\ last'.ret = -EINVAL
           /\ ~last'.oops
           /\ last'.out = NoBytes
           /\ mem' = mem)]_vars

(* C8 witness: a read of 127 bytes of a non-empty secret was refused        *)
C8_Witness ==
    /\ last.op = "read"
    /\ last.count = MAXBYTES - 1
    /\ last.ret = -EINVAL
    /\ ctx = "valid"
    /\ strnlen(mem.oursecret, MAXBYTES) > 0

(* C10: a write whose copy_from_user() fails returns -EFAULT, has released  *)
(* the staging buffer it allocated, and leaves the whole context (every     *)
(* byte of the secret, rx, tx) as it was.                                   *)
C10_CopyInFaultLeavesState ==
    [][(WriteStep /\ last'.uncopied # 0)
       => (/\ last'.ret = -EFAULT
           /\ ~last'.oops
           /\ last'.allocs = 1
           /\ last'.frees = 1
           /\ live' = live
           /\ mem' = mem)]_vars

(* C10 witness: a faulting write of a two-byte payload over "initmsg"       *)
C10_Witness ==
    /\ last.op = "write"
    /\ last.uncopied # 0
    /\ last.count = 2
    /\ last.ret = -EFAULT
    /\ ctx = "valid"
    /\ Logical(mem.oursecret) = InitmsgText
    /\ live = 0

---------------------------------------------------------------------------
(* SpecC: module init and the handlers of the tasks in Procs, interleaved   *)
(* at their accesses to ctx, *ctx, ga and gb: every load and every store of *)
(* a shared byte or counter is a step.  Work on a task's own locals and     *)
(* staging buffer is folded into the step that follows it.                  *)

ConcPayloads == {<<97, 97, 0>>, <<98, 98, 0>>, <<98>>, <<>>}
ConcBigCounts == {MAXBYTES + 1}
ConcReadCounts == {MAXBYTES - 1, MAXBYTES}

shared == <<registered, ctx, mem, ga, gb, initst, initi, sessions, live>>

(* The handler of task p returns r (or dies in it, r.oops) *)
Return(p, r) ==
    /\ pc' = [pc EXCEPT ![p] = IF r.oops THEN "oops" ELSE "idle"]
    /\ loc' = [loc EXCEPT ![p] = NoLoc]
    /\ done' = [done EXCEPT ![p] = r]
    /\ UNCHANGED last

Goto(p, where, l) ==
    /\ pc' = [pc EXCEPT ![p] = where]
    /\ loc' = [loc EXCEPT ![p] = l]
    /\ UNCHANGED <<done, last>>

(* miscdrv_init, line 264: misc_register() *)
InitRegister(regret) ==
    /\ initst = "start"
    /\ IF regret # 0 THEN
            /\ initst' = "failed"
            /\ last' = Ret("init", 0, NoBytes, regret, FALSE, NoBytes, FALSE, 0, 0, 0)
            /\ UNCHANGED registered
       ELSE
            /\ initst' = "registered"
            /\ registered' = TRUE
            /\ UNCHANGED last
    /\ UNCHANGED <<initi, ctx, mem, ga, gb, sessions, live, ncalls, taskvars>>

(* miscdrv_init, lines 281-285: ctx = devm_kzalloc() *)
InitAlloc(allocfail) ==
    /\ initst = "registered"
    /\ IF allocfail THEN
            /\ initst' = "failed"
            /\ last' = Ret("init", 0, NoBytes, -ENOMEM, FALSE, NoBytes, TRUE, 0, 0, 0)
            /\ UNCHANGED <<ctx, mem>>
       ELSE
            /\ initst' = "allocated"
            /\ ctx' = "valid"
            /\ mem' = ZeroCtx
            /\ UNCHANGED last
    /\ UNCHANGED <<initi, registered, ga, gb, sessions, live, ncalls, taskvars>>

(* miscdrv_init, line 286, strlcpy: memcpy(dest, "initmsg", len), one byte *)
InitMemcpy ==
    /\ initst = "allocated"
    /\ initi < strlcpy_len(initmsg, InitSize, 0)
    /\ initi' = initi + 1
    /\ mem' = [mem EXCEPT !.oursecret[initi + 1] = initmsg[initi + 1]]
    /\ UNCHANGED <<registered, ctx, ga, gb, initst, sessions, live, last, ncalls,
                   taskvars>>

(* miscdrv_init, line 286, strlcpy: dest[len] = '\0'; lines 287-291: return 0 *)
InitTerm ==
    /\ initst = "allocated"
    /\ initi = strlcpy_len(initmsg, InitSize, 0)
    /\ initst' = "done"
    /\ mem' = [mem EXCEPT !.oursecret[initi + 1] = 0]
    /\ last' = Ret("init", 0, NoBytes, 0, FALSE, NoBytes, FALSE, 0, 0, 0)
    /\ UNCHANGED <<registered, ctx, ga, gb, initi, sessions, live, ncalls, taskvars>>

(* The handler of task p dies in an oops; a staging buffer it holds is      *)
(* never released.                                                          *)
Die(p) ==
    Return(p, Ret(loc[p].op, loc[p].count, loc[p].ubuf, 0, TRUE, NoBytes, FALSE, 0,
                  IF loc[p].op = "write" THEN RealBuf(loc[p].count) ELSE 0, 0))

(* open_miscdrv_rdwr by task p, line 79: ga++ (load).  The device is        *)
(* reachable as soon as it is on the misc list.                             *)
OpenGaLoad(p) ==
    /\ pc[p] = "idle"
    /\ fd[p] = "never"
    /\ registered
    /\ Goto(p, "o_ga_store", [loc[p] EXCEPT !.op = "open", !.tmp = ga])
    /\ UNCHANGED <<shared, ncalls, fd>>

(* line 79: ga++ (store) *)
OpenGaStore(p) ==
    /\ pc[p] = "o_ga_store"
    /\ ga' = AddInt32(loc[p].tmp, 1)
    /\ Goto(p, "o_gb_load", loc[p])
    /\ UNCHANGED <<registered, ctx, mem, gb, initst, initi, sessions, live, ncalls, fd>>

(* line 80: gb-- (load) *)
OpenGbLoad(p) ==
    /\ pc[p] = "o_gb_load"
    /\ Goto(p, "o_gb_store", [loc[p] EXCEPT !.tmp = gb])
    /\ UNCHANGED <<shared, ncalls, fd>>

(* line 80: gb-- (store); line 88: return 0, the descriptor is open *)
OpenGbStore(p) ==
    /\ pc[p] = "o_gb_store"
    /\ gb' = AddInt32(loc[p].tmp, -1)
    /\ fd' = [fd EXCEPT ![p] = "open"]
    /\ sessions' = sessions + 1
    /\ Return(p, Ret("open", 0, NoBytes, 0, FALSE, NoBytes, FALSE, 0, 0, 0))
    /\ UNCHANGED <<registered, ctx, mem, ga, initst, initi, live, ncalls>>

TaskOpen(p) ==
    \/ OpenGaLoad(p)
    \/ OpenGaStore(p)
    \/ OpenGbLoad(p)
    \/ OpenGbStore(p)

(* close_miscdrv_rdwr by task p, line 229: ga-- (load) *)
CloseGaLoad(p) ==
    /\ pc[p] = "idle"
    /\ fd[p] = "open"
    /\ Goto(p, "c_ga_store", [loc[p] EXCEPT !.op = "close", !.tmp = ga])
    /\ UNCHANGED <<shared, ncalls, fd>>

(* line 229: ga-- (store) *)
CloseGaStore(p) ==
    /\ pc[p] = "c_ga_store"
    /\ ga' = AddInt32(loc[p].tmp, -1)
    /\ Goto(p, "c_gb_load", loc[p])
    /\ UNCHANGED <<registered, ctx, mem, gb, initst, initi, sessions, live, ncalls, fd>>

(* line 230: gb++ (load) *)
CloseGbLoad(p) ==
    /\ pc[p] = "c_gb_load"
    /\ Goto(p, "c_gb_store", [loc[p] EXCEPT !.tmp = gb])
    /\ UNCHANGED <<shared, ncalls, fd>>

(* line 230: gb++ (store); line 234: return 0, the descriptor is gone *)
CloseGbStore(p) ==
    /\ pc[p] = "c_gb_store"
    /\ gb' = AddInt32(loc[p].tmp, 1)
    /\ fd' = [fd EXCEPT ![p] = "closed"]
    /\ sessions' = sessions - 1
    /\ Return(p, Ret("close", 0, NoBytes, 0, FALSE, NoBytes, FALSE, 0, 0, 0))
    /\ UNCHANGED <<registered, ctx, mem, ga, initst, initi, live, ncalls>>

TaskClose(p) ==
    \/ CloseGaLoad(p)
    \/ CloseGaStore(p)
    \/ CloseGbLoad(p)
    \/ CloseGbStore(p)

(* read_miscdrv_rdwr, lines 103-120: the length scan of the shared secret   *)
(* and the two checks; the scan dereferences ctx.  uncopied is what         *)
(* copy_to_user() at line 134 is going to return: with nothing copied the   *)
(* handler returns -EFAULT without another access to the context.           *)
ReadBegin(p, count, uncopied, uaf) ==
    /\ pc[p] = "idle"
    /\ fd[p] = "open"
    /\ ncalls < MaxConcCalls
    /\ ncalls' = ncalls + 1
    /\ IF ctx_fault(ctx, uaf) THEN
            Return(p, Ret("read", count, NoBytes, 0, TRUE, NoBytes, FALSE, 0, 0, 0))
       ELSE IF ~read_copies(mem, count) THEN
            Return(p, Ret("read", count, NoBytes, -EINVAL, FALSE, NoBytes,
                          FALSE, 0, 0, 0))
       ELSE IF uncopied = read_secret_len(mem) THEN
            Return(p, Ret("read", count, NoBytes, -EFAULT, FALSE, NoBytes,
                          FALSE, uncopied, 0, 0))
       ELSE
            Goto(p, "r_copy", [loc[p] EXCEPT !.op = "read", !.count = count,
                                             !.secret_len = read_secret_len(mem),
                                             !.len = read_secret_len(mem) - uncopied,
                                             !.i = 0])
    /\ UNCHANGED <<shared, fd>>

(* lines 133-139: copy_to_user(ubuf, ctx->oursecret, secret_len), one byte; *)
(* after the last byte it can deliver, -EFAULT if bytes are left uncopied.  *)
ReadCopy(p, uaf) ==
    /\ pc[p] = "r_copy"
    /\ LET i == loc[p].i + 1
           out == Append(loc[p].out, mem.oursecret[i])
       IN  IF ctx_fault(ctx, uaf) THEN
                Die(p)
           ELSE IF i < loc[p].len THEN
                Goto(p, "r_copy", [loc[p] EXCEPT !.i = i, !.out = out])
           ELSE IF loc[p].len < loc[p].secret_len THEN
                Return(p, Ret("read", loc[p].count, NoBytes, -EFAULT, FALSE, out,
                              FALSE, loc[p].secret_len - loc[p].len, 0, 0))
           ELSE
                Goto(p, "r_tx_load", [loc[p] EXCEPT !.i = i, !.out = out])
    /\ UNCHANGED <<shared, ncalls, fd>>

(* line 142: ctx->tx += secret_len (load) *)
ReadTxLoad(p, uaf) ==
    /\ pc[p] = "r_tx_load"
    /\ IF ctx_fault(ctx, uaf) THEN
            Die(p)
       ELSE
            Goto(p, "r_tx_store", [loc[p] EXCEPT !.tmp = mem.tx])
    /\ UNCHANGED <<shared, ncalls, fd>>

(* line 142: ctx->tx += secret_len (store) *)
ReadTxStore(p, uaf) ==
    /\ pc[p] = "r_tx_store"
    /\ IF ctx_fault(ctx, uaf) THEN
            /\ Die(p)
            /\ UNCHANGED mem
       ELSE
            /\ mem' = [mem EXCEPT !.tx = AddInt32(loc[p].tmp, loc[p].secret_len)]
            /\ Goto(p, "r_stats", loc[p])
    /\ UNCHANGED <<registered, ctx, ga, gb, initst, initi, sessions, live, ncalls, fd>>

(* lines 143-144: pr_info() loads ctx->tx and ctx->rx; line 146: return     *)
(* secret_len                                                               *)
ReadStats(p, uaf) ==
    /\ pc[p] = "r_stats"
    /\ IF ctx_fault(ctx, uaf) THEN
            Die(p)
       ELSE
            Return(p, Ret("read", loc[p].count, NoBytes, loc[p].secret_len, FALSE,
                          loc[p].out, FALSE, 0, 0, 0))
    /\ UNCHANGED <<shared, ncalls, fd>>

(* write_miscdrv_rdwr, lines 161-178: the size check and the staging buffer *)
WriteBegin(p, count, ubuf, allocfail) ==
    /\ pc[p] = "idle"
    /\ fd[p] = "open"
    /\ ncalls < MaxConcCalls
    /\ ncalls' = ncalls + 1
    /\ IF write_too_big(count) THEN
            /\ Return(p, Ret("write", count, ubuf, write_ret_too_big(count), FALSE,
                             NoBytes, FALSE, 0, 0, 0))
            /\ UNCHANGED live
       ELSE IF allocfail THEN
            /\ Return(p, Ret("write", count, ubuf, write_ret_nomem(count), FALSE, NoBytes,
                             TRUE, 0, 0, 0))
            /\ UNCHANGED live
       ELSE
            /\ Goto(p, "w_copy", [loc[p] EXCEPT !.op = "write", !.count = count,
                                                !.ubuf = ubuf,
                                                !.kbuf = Zeros(count)])
            /\ live' = live + RealBuf(count)
    /\ UNCHANGED <<registered, ctx, mem, ga, gb, initst, initi, sessions, fd>>

(* lines 188-193: copy_from_user(kbuf, ubuf, count); when bytes are left    *)
(* uncopied, lines 213-216: kvfree(kbuf) and return -EFAULT.                *)
WriteCopy(p, uncopied) ==
    /\ pc[p] = "w_copy"
    /\ IF copy_from_user_failed(uncopied) THEN
            /\ live' = live - RealBuf(loc[p].count)
            /\ Return(p, Ret("write", loc[p].count, loc[p].ubuf, -EFAULT, FALSE,
                             NoBytes, FALSE, uncopied,
                             RealBuf(loc[p].count), RealBuf(loc[p].count)))
       ELSE
            /\ Goto(p, "w_strlen", [loc[p] EXCEPT !.kbuf = loc[p].ubuf])
            /\ UNCHANGED live
    /\ UNCHANGED <<registered, ctx, mem, ga, gb, initst, initi, sessions, ncalls, fd>>

(* line 200, strlcpy: strlen(kbuf) and the number of bytes to copy.         *)
(* strlen() of the zero-size allocation reads an invalid address and the    *)
(* task dies; otherwise the argument ctx->oursecret is formed from ctx,     *)
(* whose first store comes with the next step.                              *)
WriteStrlen(p, over) ==
    /\ pc[p] = "w_strlen"
    /\ LET count == loc[p].count
           size == write_size(count)
           len == strlcpy_len(loc[p].kbuf, size, over)
       IN  IF kbuf_fault(count) THEN
                Die(p)
           ELSE
                Goto(p, IF len = 0 THEN "w_term" ELSE "w_memcpy",
                     [loc[p] EXCEPT !.len = len, !.i = 0])
    /\ UNCHANGED <<shared, ncalls, fd>>

(* strlcpy: memcpy(dest, src, len), one byte *)
WriteMemcpy(p, uaf) ==
    /\ pc[p] = "w_memcpy"
    /\ LET i == loc[p].i + 1
       IN  IF ctx_fault(ctx, uaf) THEN
                /\ Die(p)
                /\ UNCHANGED mem
           ELSE
                /\ mem' = [mem EXCEPT !.oursecret[i] = loc[p].kbuf[i]]
                /\ Goto(p, IF i = loc[p].len THEN "w_term" ELSE "w_memcpy",
                        [loc[p] EXCEPT !.i = i])
    /\ UNCHANGED <<registered, ctx, ga, gb, initst, initi, sessions, live, ncalls, fd>>

(* strlcpy: dest[len] = '\0' *)
WriteTerm(p, uaf) ==
    /\ pc[p] = "w_term"
    /\ IF ctx_fault(ctx, uaf) THEN
            /\ Die(p)
            /\ UNCHANGED mem
       ELSE
            /\ mem' = [mem EXCEPT !.oursecret[loc[p].len + 1] = 0]
            /\ Goto(p, "w_rx_load", loc[p])
    /\ UNCHANGED <<registered, ctx, ga, gb, initst, initi, sessions, live, ncalls, fd>>

(* line 207: ctx->rx += count (load) *)
WriteRxLoad(p, uaf) ==
    /\ pc[p] = "w_rx_load"
    /\ IF ctx_fault(ctx, uaf) THEN
            Die(p)
       ELSE
            Goto(p, "w_rx_store", [loc[p] EXCEPT !.tmp = mem.rx])
    /\ UNCHANGED <<shared, ncalls, fd>>

(* line 207: ctx->rx += count (store) *)
WriteRxStore(p, uaf) ==
    /\ pc[p] = "w_rx_store"
    /\ IF ctx_fault(ctx, uaf) THEN
            /\ Die(p)
            /\ UNCHANGED mem
       ELSE
            /\ mem' = [mem EXCEPT !.rx = AddInt32(loc[p].tmp, loc[p].count)]
            /\ Goto(p, "w_stats", loc[p])
    /\ UNCHANGED <<registered, ctx, ga, gb, initst, initi, sessions, live, ncalls, fd>>

(* lines 210-211: pr_info() loads ctx->tx and ctx->rx; line 214:            *)
(* kvfree(kbuf); line 216: return count                                     *)
WriteStats(p, uaf) ==
    /\ pc[p] = "w_stats"
    /\ IF ctx_fault(ctx, uaf) THEN
            /\ Die(p)
            /\ UNCHANGED live
       ELSE
            /\ live' = live - RealBuf(loc[p].count)
            /\ Return(p, Ret("write", loc[p].count, loc[p].ubuf, ToInt32(loc[p].count),
                             FALSE, NoBytes, FALSE, 0,
                             RealBuf(loc[p].count), RealBuf(loc[p].count)))
    /\ UNCHANGED <<registered, ctx, mem, ga, gb, initst, initi, sessions, ncalls, fd>>

ConcAttach ==
    \/ \E regret \in {0, -EBUSY} : InitRegister(regret)
    \/ \E allocfail \in BOOLEAN : InitAlloc(allocfail)
    \/ InitMemcpy
    \/ InitTerm

ConcInit ==
    \/ ConcAttach
    \/ \E devfault \in BOOLEAN : ModuleExit(devfault)

ConcOpenClose(p) ==
    \/ TaskOpen(p)
    \/ TaskClose(p)

ConcRead(p) ==
    \/ \E count \in ConcReadCounts : \E uncopied \in ReadResidues(count) :
       \E uaf \in UafChoices :
          ReadBegin(p, count, uncopied, uaf)
    \/ \E uaf \in UafChoices : ReadCopy(p, uaf)
    \/ \E uaf \in UafChoices : ReadTxLoad(p, uaf)
    \/ \E uaf \in UafChoices : ReadTxStore(p, uaf)
    \/ \E uaf \in UafChoices : ReadStats(p, uaf)

ConcWrite(p) ==
    \/ \E count \in ConcBigCounts : WriteBegin(p, count, NoBytes, FALSE)
    \/ \E ubuf \in ConcPayloads :
       \E allocfail \in (IF RealBuf(Len(ubuf)) > 0 THEN BOOLEAN ELSE {FALSE}) :
          WriteBegin(p, Len(ubuf), ubuf, allocfail)
    \/ \E uncopied \in Residues(loc[p].count) : WriteCopy(p, uncopied)
    \/ \E over \in (IF HasNul(loc[p].kbuf) \/ loc[p].count = 0
                    THEN {0} ELSE 0..MaxOver) :
          WriteStrlen(p, over)
    \/ \E uaf \in UafChoices : WriteMemcpy(p, uaf)
    \/ \E uaf \in UafChoices : WriteTerm(p, uaf)
    \/ \E uaf \in UafChoices : WriteRxLoad(p, uaf)
    \/ \E uaf \in UafChoices : WriteRxStore(p, uaf)
    \/ \E uaf \in UafChoices : WriteStats(p, uaf)

NextC ==
    \/ ConcInit
    \/ \E p \in Procs : ConcOpenClose(p)
    \/ \E p \in Procs : ConcRead(p)
    \/ \E p \in Procs : ConcWrite(p)

SpecC == Init /\ [][NextC]_vars

(* SpecA: the interleavings of SpecC in which the tasks reach the device    *)
(* only after miscdrv_init has returned 0.                                  *)
NextA ==
    \/ ConcInit
    \/ initst \in {"done", "exited"} /\ \E p \in Procs : ConcOpenClose(p)
    \/ initst \in {"done", "exited"} /\ \E p \in Procs : ConcRead(p)
    \/ initst \in {"done", "exited"} /\ \E p \in Procs : ConcWrite(p)

SpecA == Init /\ [][NextA]_vars

---------------------------------------------------------------------------
(* Properties of the interleaved handlers (SpecC) *)

(* What a write of payload P alone leaves as the logical secret *)
StoredForm(P) ==
    Logical(strlcpy(Zeros(MAXBYTES), P, write_size(Len(P)), 0))

(* C4 (as claimed): once two tasks have each returned from an accepted      *)
(* write of a non-empty payload, the payloads being distinct, the logical   *)
(* secret is the stored form of one of the two payloads.                    *)
C4_AtomicCommit ==
    (/\ \A p \in Procs :
            pc[p] = "idle" /\ WriteAccepted(done[p]) /\ done[p].count > 0
     /\ \A p, q \in Procs : p # q => done[p].ubuf # done[q].ubuf)
    => \E p \in Procs : Logical(mem.oursecret) = StoredForm(done[p].ubuf)

(* C5 (as claimed): whenever the device is registered, ctx is non-NULL and  *)
(* miscdrv_init has stored the initial secret.                              *)
C5_AttachedBeforeReachable ==
    registered => (ctx = "valid" /\ initst = "done")

(* C9 (as claimed): while the context exists no step lowers tx or rx.       *)
C9_CountersMonotonic ==
    [][(ctx = "valid" /\ ctx' = "valid")
       => (mem'.tx >= mem.tx /\ mem'.rx >= mem.rx)]_vars


---------------------------------------------------------------------------
(* Further properties of the serialized handlers (Spec) *)

(* C11: a write with count <= MAXBYTES that returns without an error        *)
(* returns count and has raised rx by exactly count, whatever number of     *)
(* bytes the commit stored.                                                 *)
C11_RxCountsRequest ==
    [][(/\ WriteStep
        /\ ~last'.oops
        /\ last'.count <= MAXBYTES
        /\ last'.ret >= 0)
       => (/\ last'.ret = last'.count
           /\ mem'.rx = mem.rx + last'.count
           /\ mem'.tx = mem.tx)]_vars

(* C11 witness: write("hello", 5) returned 5 and rx is 5 although only the  *)
(* four bytes "hell" were stored.                                           *)
C11_Witness ==
    /\ last.op = "write"
    /\ last.ubuf = hello
    /\ last.ret = 5
    /\ mem.rx = 5
    /\ strnlen(mem.oursecret, MAXBYTES) = 4

(* C12: once a write has left a secret of logical length 0, every read,     *)
(* whatever its count, fails with -EINVAL, copies nothing to the caller and *)
(* leaves tx and the rest of the context as they were.                      *)
C12_EmptySecretUnreadable ==
    [][(/\ ReadStep
        /\ ctx = "valid"
        /\ strnlen(mem.oursecret, MAXBYTES) = 0)
       => (/\ last'.ret = -EINVAL
           /\ ~last'.oops
           /\ last'.out = NoBytes
           /\ mem' = mem)]_vars

(* C12 witness: a read with a large enough buffer was refused because the   *)
(* secret, emptied by an earlier accepted write, has length 0.              *)
C12_Witness ==
    /\ last.op = "read"
    /\ last.count >= MAXBYTES
    /\ last.ret = -EINVAL
    /\ ctx = "valid"
    /\ mem.rx > 0
    /\ strnlen(mem.oursecret, MAXBYTES) = 0

(* Secrets the buffer may hold before a write: the zeroed buffer, the       *)
(* initial message, and a buffer filled up to its last byte.                *)
PrevSecrets ==
    { Zeros(MAXBYTES),
      init_secret(ZeroCtx).oursecret,
      Fill(97, MAXBYTES - 1) \o <<0>> }

(* C13: after an accepted write the logical secret is the one the same      *)
(* payload and count produce from any previous secret, so it does not       *)
(* depend on what the buffer held before.                                   *)
C13_SecretReplacedWholesale ==
    [][(WriteStep /\ ctx = "valid" /\ WriteAccepted(last'))
       => \A prev \in PrevSecrets :
            Logical(mem'.oursecret) =
                Logical(write_commit([mem EXCEPT !.oursecret = prev],
                                     last'.ubuf, last'.count, 0).oursecret)]_vars

(* C13 witness: write("aa", 2) over "initmsg" was accepted; the secret is   *)
(* "a" although the buffer still holds "itmsg" behind the terminator.       *)
C13_Witness ==
    /\ last.op = "write"
    /\ ~last.oops
    /\ last.ubuf = <<97, 97>>
    /\ last.ret = 2
    /\ ctx = "valid"
    /\ Logical(mem.oursecret) = <<97>>
    /\ SubSeq(mem.oursecret, 3, 7) = SubSeq(initmsg, 3, 7)

(* C17: a read changes neither the secret nor rx, a write does not change   *)
(* tx, and after every step, open and close included, err, config1,         *)
(* config2 and config3 are still 0.                                         *)
C17_FrameConditions ==
    [][/\ ReadStep => (mem'.oursecret = mem.oursecret /\ mem'.rx = mem.rx)
       /\ WriteStep => mem'.tx = mem.tx
       /\ mem'.err = 0
       /\ mem'.config1 = 0
       /\ mem'.config2 = 0
       /\ mem'.config3 = 0]_vars

(* C17 witness: a read has delivered a secret stored by an earlier write;   *)
(* rx still holds the count of that write and tx the bytes read.            *)
C17_Witness ==
    /\ last.op = "read"
    /\ last.ret > 0
    /\ mem.tx = last.ret
    /\ mem.rx > last.ret
    /\ Logical(mem.oursecret) = last.out
    /\ mem.err = 0

(* C18: a write with count <= MAXBYTES whose kvmalloc() fails returns       *)
(* -ENOMEM without an oops, allocates and releases nothing, and leaves the  *)
(* secret, rx, tx and the rest of the context as they were.                 *)
C18_AllocFailureLeavesState ==
    [][(WriteStep /\ last'.allocfail /\ last'.count <= MAXBYTES)
       => (/\ last'.ret = -ENOMEM
           /\ ~last'.oops
           /\ last'.allocs = 0
           /\ last'.frees = 0
           /\ live' = live
           /\ mem' = mem)]_vars

(* C18 witness: after an accepted write of "hello", a second write hit the  *)
(* allocation failure and the secret is still "hell", rx still 5.           *)
C18_Witness ==
    /\ last.op = "write"
    /\ last.allocfail
    /\ last.count > 0
    /\ last.ret = -ENOMEM
    /\ ctx = "valid"
    /\ Logical(mem.oursecret) = <<104, 101, 108, 108>>
    /\ mem.rx = 5

(* C19: with the handlers run one at a time, ga + gb = 1 and ga is the      *)
(* number of open sessions in every state between handlers, and no read or  *)
(* write changes ga or gb.                                                  *)
C19_SessionCounters ==
    /\ [](ga + gb = 1 /\ ga = sessions)
    /\ [][(ReadStep \/ WriteStep) => (ga' = ga /\ gb' = gb)]_vars

(* C19 witness: a session was opened, used for a read or a write, and       *)
(* closed again: ga is back at 0 and gb at 1.                               *)
C19_Witness ==
    /\ last.op = "close"
    /\ ncalls > 0
    /\ sessions = 0
    /\ ga = 0
    /\ gb = 1

(* C16 (as claimed): between handlers no staging buffer is live, and a      *)
(* write that has ended released as many buffers as it allocated, none on   *)
(* the paths that allocate nothing.                                         *)
C16_StagingReleased ==
    /\ live = 0
    /\ last.op = "write" =>
          /\ last.frees = last.allocs
          /\ (write_too_big(last.count) \/ last.allocfail) => last.allocs = 0

---------------------------------------------------------------------------
(* SpecL: the lifetime of the context, from misc_register() on, with two    *)
(* tasks that open the device and write, once each, a payload that fills    *)
(* the whole buffer and has no terminator.  The calls are issued so that    *)
(* the byte stores of a task's strlcpy interleave with those of init's      *)
(* strlcpy or with those of the other task's: the opens come one at a time  *)
(* (their races are in SpecC), and until init has returned only one task is *)
(* inside a handler.                                                        *)

LongPayloads == { Fill(98, MAXBYTES) }

OthersIdle(p) == \A q \in Procs \ {p} : pc[q] = "idle"

LongOpen(p) ==
    \/ OthersIdle(p) /\ OpenGaLoad(p)
    \/ OpenGaStore(p)
    \/ OpenGbLoad(p)
    \/ OpenGbStore(p)

LongWrite(p) ==
    \/ \E ubuf \in LongPayloads :
          /\ done[p].op = "open"
          /\ initst = "done" \/ OthersIdle(p)
          /\ WriteBegin(p, Len(ubuf), ubuf, FALSE)
    \/ WriteCopy(p, 0)
    \/ \E over \in (IF HasNul(loc[p].kbuf) THEN {0} ELSE 0..MaxOver) :
          WriteStrlen(p, over)
    \/ \E uaf \in UafChoices : WriteMemcpy(p, uaf)
    \/ \E uaf \in UafChoices : WriteTerm(p, uaf)
    \/ \E uaf \in UafChoices : WriteRxLoad(p, uaf)
    \/ \E uaf \in UafChoices : WriteRxStore(p, uaf)
    \/ \E uaf \in UafChoices : WriteStats(p, uaf)

NextL ==
    \/ ConcAttach
    \/ \E p \in Procs : LongOpen(p)
    \/ \E p \in Procs : LongWrite(p)

SpecL == Init /\ [][NextL]_vars

(* C14: while the context exists the 128-byte buffer holds a terminator, so *)
(* strnlen(oursecret, MAXBYTES) stops inside it; the byte copy and the      *)
(* terminator of every strlcpy go to indexes below MAXBYTES.                *)
C14_SecretTerminated ==
    /\ ctx = "valid" =>
          /\ Len(mem.oursecret) = MAXBYTES
          /\ HasNul(mem.oursecret)
          /\ strnlen(mem.oursecret, MAXBYTES) < MAXBYTES
    /\ \A p \in Procs :
          /\ pc[p] = "w_memcpy" => loc[p].i + 1 <= MAXBYTES - 1
          /\ pc[p] = "w_term" => loc[p].len <= MAXBYTES - 1

(* C14 witness: a write of 128 bytes without a terminator has returned 128  *)
(* and the buffer holds 127 of them followed by the terminator.             *)
C14_Witness ==
    /\ ctx = "valid"
    /\ \E p \in Procs :
          /\ WriteAccepted(done[p])
          /\ done[p].ubuf = Fill(98, MAXBYTES)
    /\ strnlen(mem.oursecret, MAXBYTES) = MAXBYTES - 1
    /\ mem.oursecret[MAXBYTES] = 0

---------------------------------------------------------------------------
(* Further properties of the interleaved handlers (SpecA) *)

(* C15 (as claimed): the bytes a successful read has returned contain no    *)
(* terminator and are the initial secret or the stored form of one of the   *)
(* payloads written.                                                        *)
C15_ReadDisclosesOneSecret ==
    \A p \in Procs :
        (done[p].op = "read" /\ ~done[p].oops /\ done[p].ret > 0)
        => /\ ~HasNul(done[p].out)
           /\ done[p].out \in
                {InitmsgText} \cup {StoredForm(P) : P \in ConcPayloads}

====
